---- MODULE Spec2Model ----
(***************************************************************************)
(* The PDF upload route (src/src/app/api/files/upload/route.ts) and the    *)
(* extract route (src/src/app/api/extract/route.ts) as state machines over *)
(* the persistent store: the principal's credit balance, the job (file)    *)
(* records, the stored results and the audit trail (resumeHistory).        *)
(* Every await of the handlers is a step; the code between two awaits runs *)
(* in the step of the await that precedes it.                              *)
(***************************************************************************)
EXTENDS Integers, Sequences, FiniteSets, TLC

VARIABLES
    credits,      \* user.credits of the principal (prisma.user)
    files,        \* job id -> status of the prisma.file record ("none" before creation)
    resumeData,   \* job id -> the stored result, <<>> when none
    history,      \* job id -> the resumeHistory entries of that job, in write order
    req,          \* upload request -> the locals of its POST invocation
    faults,       \* number of store or service calls that failed so far
    ui            \* the state and the running handlers of the PdfUploader component

vars == <<credits, files, resumeData, history, req, faults, ui>>

\* ------------------------------------------------------------------ bounds

\* The requests of the one principal; a job's id is the name of the request
\* that created it.
Requests == {"r1", "r2"}

\* At most this many store calls fail in one run.
MaxFaults == 2

\* Balances the principal may start with.
InitCredits == {50, 100, 250}

\* ------------------------------------------------------------- constants

CREDITS_REQUIRED == 100

\* Text lengths below this are treated as an image-based PDF.
MIN_TEXT == 50

\* Text lengths from this on take the early-exit branch when no image exists.
EARLY_EXIT_TEXT == 100

\* Size limit of one image data URL at request-building time.
OPENAI_IMAGE_LIMIT == 20000000

MESSAGE_LIMIT == 200

\* ------------------------------------------------------------- messages

MsgNoSignal ==
    "PDF.co API key is not configured. Please set the PDFCO_API_KEY environment variable in Vercel to process image-based PDFs."
MsgPrepImages ==
    "Failed to prepare images for OpenAI. The images may be corrupted or invalid."
MsgCannotProcess ==
    "Cannot process image-based PDF. The PDF appears to be a scanned/image-based document with insufficient text. Please ensure PDFCO_API_KEY is configured in Vercel to process image-based PDFs."
MsgInferenceEmpty ==
    "OpenAI returned an empty response. The PDF may be too complex or the image quality may be insufficient."
MsgMalformed ==
    "Failed to parse OpenAI response: Unexpected token S in JSON at position 0"
MsgExtractionEmpty ==
    "Failed to extract data from image-based PDF. The PDF may be too complex, the image quality may be insufficient, or the PDF may not contain readable resume information."
MsgTextTimeout ==
    "Failed to extract text from PDF: PDF parsing timeout after 30 seconds"
MsgTextParser ==
    "Failed to extract text from PDF: PDF parsing error"
MsgTextWrite ==
    "Failed to extract text from PDF: ENOSPC: no space left on device, write"
\* Messages of errors raised by collaborators (the store, the inference client).
MsgStoreShort ==
    "Connection to the database server was refused"
MsgStoreLong ==
    "<an error of the store whose message has 200 characters or more>"
MsgOpenAI ==
    "Connection error."

UserDefault ==
    "Failed to process PDF. Please try again or use a different file."
UserUnavailable ==
    "Image-based PDF processing is currently unavailable. Please use a text-based PDF or convert your PDF to a text-based format."
UserImageBased ==
    "Unable to process this image-based PDF. Please ensure the PDF contains selectable text or convert it to a text-based PDF."
UserTimeout ==
    "PDF processing timed out. Please try with a smaller file or ensure the PDF is not corrupted."
UserCorrupted ==
    "The PDF file appears to be corrupted or invalid. Please try with a different PDF file."

StoreErrors == {MsgStoreShort, MsgStoreLong}
TextErrors == {MsgTextTimeout, MsgTextParser, MsgTextWrite}

\* The wrapped errors of the pdfParser_dataError event.
ParserErrors == {MsgTextParser}

\* errorMsg.includes(needle), for the needles the catch block tests.
Includes(m, needle) ==
    CASE needle = "image-based" -> m \in {MsgNoSignal, MsgCannotProcess, MsgExtractionEmpty}
      [] needle = "timeout" -> m = MsgTextTimeout
      [] needle = "corrupted" -> m = MsgPrepImages
      [] needle = "invalid" -> m = MsgPrepImages
      [] OTHER -> FALSE

\* errorMsg.length
MsgLength(m) ==
    CASE m = MsgNoSignal -> 122
      [] m = MsgPrepImages -> 76
      [] m = MsgCannotProcess -> 189
      [] m = MsgInferenceEmpty -> 103
      [] m = MsgMalformed -> 73
      [] m = MsgExtractionEmpty -> 167
      [] m = MsgTextTimeout -> 69
      [] m = MsgTextParser -> 50
      [] m = MsgTextWrite -> 71
      [] m = MsgStoreShort -> 45
      [] m = MsgOpenAI -> 17
      [] OTHER -> 240

\* UserMessage without the branch for timeouts.
UserMessageWithoutTimeout(m) ==
    IF Includes(m, "worker") \/ Includes(m, "pdfjs-dist") \/ Includes(m, "Cannot find module")
    THEN UserUnavailable
    ELSE IF Includes(m, "Insufficient credits") THEN m
    ELSE IF Includes(m, "image-based") \/ Includes(m, "OCR") THEN UserImageBased
    ELSE IF Includes(m, "corrupted") \/ Includes(m, "invalid") THEN UserCorrupted
    ELSE IF MsgLength(m) < MESSAGE_LIMIT THEN m
    ELSE UserDefault

\* The catch block's choice of the message shown to the caller.
UserMessage(m) ==
    IF Includes(m, "worker") \/ Includes(m, "pdfjs-dist") \/ Includes(m, "Cannot find module")
    THEN UserUnavailable
    ELSE IF Includes(m, "Insufficient credits") THEN m
    ELSE IF Includes(m, "image-based") \/ Includes(m, "OCR") THEN UserImageBased
    ELSE IF Includes(m, "timeout") THEN UserTimeout
    ELSE IF Includes(m, "corrupted") \/ Includes(m, "invalid") THEN UserCorrupted
    ELSE IF MsgLength(m) < MESSAGE_LIMIT THEN m
    ELSE UserDefault

\* ------------------------------------------------------------- responses

NoResponse == [status |-> 0, error |-> "", data |-> <<>>]
ErrorResponse(code, msg) == [status |-> code, error |-> msg, data |-> <<>>]
ResultResponse(result) == [status |-> 200, error |-> "", data |-> <<result>>]

Range(s) == {s[i] : i \in DOMAIN s}

\* ----------------------------------------------------- structured results

\* The nine top-level keys of the template, in template order.
TopKeys ==
    {"profile", "workExperiences", "educations", "skills", "licenses",
     "languages", "achievements", "publications", "honors"}

\* A parsed object is a function from the top-level keys it holds to values:
\* for profile the names of its non-empty fields, for the others the items.
ObjFull == [k \in TopKeys |-> IF k = "profile" THEN <<"name", "surname">> ELSE <<"item">>]
ObjTemplate == [k \in TopKeys |-> <<>>]
ObjProfileName == [k \in {"profile"} |-> <<"name">>]
ObjSkillsOnly == [k \in {"skills"} |-> <<"item">>]
ObjEmpty == [k \in {} |-> <<>>]

createEmptyResumeTemplate == ObjTemplate

\* What completion.choices[0]?.message?.content can be.
ContentNull == "<no content>"
ContentEmptyString == ""
ContentBlank == "   "
ContentPlaceholder == "{}"
ContentSpacedEmpty == "{ }"
ContentProse == "Sorry, I cannot read this file."
ContentFull == "{<all nine keys, filled>}"
ContentTemplate == "{<all nine keys, empty>}"
ContentProfileName == "{\"profile\":{\"name\":\"Ann\"}}"
ContentSkillsOnly == "{\"skills\":[\"item\"]}"

Contents ==
    {ContentNull, ContentEmptyString, ContentBlank, ContentPlaceholder,
     ContentSpacedEmpty, ContentProse, ContentFull, ContentTemplate,
     ContentProfileName, ContentSkillsOnly}

\* !responseContent
Falsy(content) == content \in {ContentNull, ContentEmptyString}

\* responseContent.trim()
Trim(content) == IF content = ContentBlank THEN "" ELSE content

\* JSON.parse(text): <<value>>, or <<>> when it throws.
JSONParse(text) ==
    CASE text = ContentPlaceholder -> <<ObjEmpty>>
      [] text = ContentSpacedEmpty -> <<ObjEmpty>>
      [] text = ContentFull -> <<ObjFull>>
      [] text = ContentTemplate -> <<ObjTemplate>>
      [] text = ContentProfileName -> <<ObjProfileName>>
      [] text = ContentSkillsOnly -> <<ObjSkillsOnly>>
      [] OTHER -> <<>>

\* result.profile?.<field> is truthy
ProfileHas(o, field) == "profile" \in DOMAIN o /\ field \in Range(o["profile"])

\* !result.<key> || result.<key>.length === 0
NoItems(o, key) == key \notin DOMAIN o \/ Len(o[key]) = 0

isEmpty(o) ==
    /\ ~ProfileHas(o, "name")
    /\ ~ProfileHas(o, "surname")
    /\ NoItems(o, "workExperiences")
    /\ NoItems(o, "educations")
    /\ NoItems(o, "skills")

\* The canonical, template-shaped form of a result: every top-level key of
\* the template, holding the input's value where it has one.
reorderResumeData(o) ==
    [k \in TopKeys |-> IF k \in DOMAIN o THEN o[k] ELSE createEmptyResumeTemplate[k]]

\* ------------------------------------------------------------ extraction

TextLens == {0, 49, 50, 99, 100}

Min(a, b) == IF a < b THEN a ELSE b

\* page.length beyond which pages are not processed (both image paths)
PAGE_LIMIT == 3

\* imageBytes.length must exceed this
MIN_IMAGE_BYTES == 1000

\* Size limit of one data URL in the image extraction
EXTRACT_IMAGE_LIMIT == 4000000

\* Buffer.from(bytes).toString("base64").length
Base64Length(bytes) == 4 * ((bytes + 2) \div 3)

\* An image data URL `data:image/<mime>;base64,<base64>`: the mime type, the
\* number of characters after the comma, and whether these are free of
\* white space.
DataUrl(mime, base64, clean) == [mime |-> mime, base64 |-> base64, clean |-> clean]

\* dataUrl.length
DataUrlLength(img) == (IF img.mime = "jpeg" THEN 23 ELSE 22) + img.base64

\* imageDataUrl.match(/^data:image\/(png|jpeg|jpg);base64,([^\s\n]+)$/i)
MatchesDataUrl(img) == img.base64 > 0 /\ img.clean

\* The data URL of an embedded image of 1001 bytes.
ImgGood == DataUrl("jpeg", Base64Length(1001), TRUE)

\* The validation loop: the images that enter the request.
ValidImage(img) == MatchesDataUrl(img) /\ DataUrlLength(img) <= OPENAI_IMAGE_LIMIT

ValidImages(images) == SelectSeq(images, ValidImage)

\* ---------------------------------------------------- image extraction

MsgNoPages ==
    "PDF has no pages"
MsgNoModule ==
    "Cannot find module pdf-lib"
MsgLoad ==
    "Failed to parse PDF document"
MsgPage ==
    "<an error raised while a page is read>"
MsgImgUnavailable ==
    "Image-based PDF processing is currently unavailable. Please use a text-based PDF or convert your scanned PDF to a text-based format."
MsgMissingCapability ==
    "SCANNED_PDF_LIMITATION: No embedded images found in PDF and no PDF conversion API configured."
MsgApiUpload ==
    "Failed to convert PDF to image via API: PDF upload API failed: 500"
MsgApiNoUrl ==
    "Failed to convert PDF to image via API: PDF.co upload API did not return a URL"
MsgApiConvert ==
    "Failed to convert PDF to image via API: PDF conversion API failed: 500"
MsgApiNoData ==
    "Failed to convert PDF to image via API: PDF conversion API returned no image data"
MsgApiNoImages ==
    "Failed to convert PDF to image via API: Failed to convert PDF pages to images"
MsgApiNetwork ==
    "Failed to convert PDF to image via API: fetch failed"

\* What an image path returns or throws, and the return statement taken.
ImgReturn(images, path) == [throws |-> "", images |-> images, path |-> path]
ImgThrow(msg) == [throws |-> msg, images |-> <<>>, path |-> ""]

\* convertPdfToImageViaApi has started the downloads of these URLs.
ImgDownloads(urls) == [throws |-> "", images |-> <<>>, path |-> "downloads", urls |-> urls]

\* An image XObject of a page: the length of its bytes and what its first
\* two bytes say.
XObject(bytes, magic) == [bytes |-> bytes, magic |-> magic]

\* The data URL built for an embedded image: JPEG unless the bytes start as
\* a PNG.
EmbeddedDataUrl(x) ==
    DataUrl(IF x.magic = "png" THEN "png" ELSE "jpeg", Base64Length(x.bytes), TRUE)

\* The loop over the XObject keys of one page: the first image above the
\* byte floor whose data URL is within the size limit.
RECURSIVE FirstQualifying(_)
FirstQualifying(xobjects) ==
    IF xobjects = <<>> THEN <<>>
    ELSE IF /\ Head(xobjects).bytes > MIN_IMAGE_BYTES
            /\ DataUrlLength(EmbeddedDataUrl(Head(xobjects))) <= EXTRACT_IMAGE_LIMIT
    THEN <<EmbeddedDataUrl(Head(xobjects))>>
    ELSE FirstQualifying(Tail(xobjects))

\* One page: its image, or nothing when the page raises an error.
PageImage(page) == IF page.error THEN <<>> ELSE FirstQualifying(page.xobjects)

\* The loop over the pages from pageIndex (counted from 1) to maxPages.
RECURSIVE ScanPages(_, _, _)
ScanPages(pages, pageIndex, maxPages) ==
    IF pageIndex > maxPages THEN <<>>
    ELSE PageImage(pages[pageIndex]) \o ScanPages(pages, pageIndex + 1, maxPages)

\* EmbeddedScan without the try/catch around one page: the error of a page
\* ends the scan and is thrown by the extractor.
EmbeddedScanWithoutPageCatch(doc) ==
    IF doc.open = "noModule" THEN ImgThrow(MsgNoModule)
    ELSE IF doc.open = "loadFails" THEN ImgThrow(MsgLoad)
    ELSE IF Len(doc.pages) = 0 THEN ImgThrow(MsgNoPages)
    ELSE IF \E i \in 1..Min(Len(doc.pages), PAGE_LIMIT) : doc.pages[i].error
    THEN ImgThrow(MsgPage)
    ELSE ImgReturn(ScanPages(doc.pages, 1, Min(Len(doc.pages), PAGE_LIMIT)), "embedded")

\* extractImagesAsBase64 up to the return of the embedded images; an empty
\* list stands for the call of the fallback.
EmbeddedScan(doc) ==
    IF doc.open = "noModule" THEN ImgThrow(MsgNoModule)
    ELSE IF doc.open = "loadFails" THEN ImgThrow(MsgLoad)
    ELSE IF Len(doc.pages) = 0 THEN ImgThrow(MsgNoPages)
    ELSE ImgReturn(ScanPages(doc.pages, 1, Min(Len(doc.pages), PAGE_LIMIT)), "embedded")

\* What the loop did at one page: the catch block was entered, no image
\* qualified, or an image was pushed.
PageOutcome(page) ==
    [outcome |-> IF page.error THEN "error"
                 ELSE IF FirstQualifying(page.xobjects) = <<>> THEN "none"
                 ELSE "image",
     image |-> PageImage(page)]

\* The pages the loop has visited, in page order, with what it did at each.
ScanTrace(doc) ==
    IF doc.open # "ok" THEN <<>>
    ELSE [i \in 1..Min(Len(doc.pages), PAGE_LIMIT) |-> PageOutcome(doc.pages[i])]

\* One download of a converted page: its data URL, or nothing (null) when
\* the fetch throws, the status is not OK or the data URL is too large.
Download(dl) ==
    IF dl.kind # "ok" THEN <<>>
    ELSE IF DataUrlLength(DataUrl("png", Base64Length(dl.bytes), TRUE)) > EXTRACT_IMAGE_LIMIT
    THEN <<>>
    ELSE <<DataUrl("png", Base64Length(dl.bytes), TRUE)>>

\* The promises of downloadPromises, one per URL in the order of the URLs:
\* whether the promise has settled, what its fetch is answered, and the
\* value it resolved to.
StartDownloads(urls) ==
    [i \in 1..Len(urls) |-> [done |-> FALSE, dl |-> urls[i], image |-> <<>>]]

\* downloadedImages.filter(img => img !== null): the values of the
\* promises in the order of the promises, without the nulls.
RECURSIVE Downloaded(_)
Downloaded(downloads) ==
    IF downloads = <<>> THEN <<>>
    ELSE Head(downloads).image \o Downloaded(Tail(downloads))

\* DownloadsResult failing as soon as one download gave no image.
DownloadsResultAllOrNothing(downloads) ==
    IF \A i \in DOMAIN downloads : downloads[i].image # <<>>
    THEN ImgReturn(Downloaded(downloads), "urls")
    ELSE ImgThrow(MsgApiNoImages)

\* What follows Promise.all(downloadPromises): the images are returned, or
\* the conversion fails when none remains.
DownloadsResult(downloads) ==
    IF Len(Downloaded(downloads)) > 0
    THEN ImgReturn(Downloaded(downloads), "urls")
    ELSE ImgThrow(MsgApiNoImages)

\* The calls of the conversion service convertPdfToImageViaApi makes.
Invoked(api) ==
    IF ~api.key THEN {}
    ELSE IF api.upload # "ok" THEN {"upload"}
    ELSE {"upload", "convert"}

\* convertPdfToImageViaApi with every URL the conversion returned downloaded.
convertEveryUrl(pageCount, api) ==
    IF ~api.key THEN ImgThrow(MsgMissingCapability)
    ELSE IF api.upload = "throws" THEN ImgThrow(MsgApiNetwork)
    ELSE IF api.upload = "notOk" THEN ImgThrow(MsgApiUpload)
    ELSE IF api.upload = "noUrl" THEN ImgThrow(MsgApiNoUrl)
    ELSE IF api.convert = "throws" THEN ImgThrow(MsgApiNetwork)
    ELSE IF api.convert = "notOk" THEN ImgThrow(MsgApiConvert)
    ELSE IF Len(api.urls) > 0 THEN ImgDownloads(api.urls)
    ELSE IF api.body # <<>> THEN ImgReturn(api.body, "inline")
    ELSE ImgThrow(MsgApiNoData)

\* convertPdfToImageViaApi up to the start of the downloads: the
\* rasterization fallback for a document of pageCount pages, against the
\* answers of the conversion service.
convertPdfToImageViaApi(pageCount, api) ==
    LET maxPagesToConvert == Min(pageCount, PAGE_LIMIT)
        maxPages == IF maxPagesToConvert # 0
                    THEN maxPagesToConvert
                    ELSE Min(Len(api.urls), PAGE_LIMIT)
        sliced == SubSeq(api.urls, 1, Min(maxPages, Len(api.urls))) IN
    IF ~api.key THEN ImgThrow(MsgMissingCapability)
    ELSE IF api.upload = "throws" THEN ImgThrow(MsgApiNetwork)
    ELSE IF api.upload = "notOk" THEN ImgThrow(MsgApiUpload)
    ELSE IF api.upload = "noUrl" THEN ImgThrow(MsgApiNoUrl)
    ELSE IF api.convert = "throws" THEN ImgThrow(MsgApiNetwork)
    ELSE IF api.convert = "notOk" THEN ImgThrow(MsgApiConvert)
    ELSE IF Len(api.urls) > 0 THEN ImgDownloads(sliced)
    ELSE IF api.body # <<>> THEN ImgReturn(api.body, "inline")
    ELSE ImgThrow(MsgApiNoData)

\* The catch block of extractImagesAsBase64: the error thrown to the caller.
ImgRethrow(msg) == IF msg = MsgNoModule THEN MsgImgUnavailable ELSE msg

ModelHigh == "gpt-4o"
ModelLow == "gpt-4o-mini"

Call(isImageBased, withText, images) ==
    [throws |-> "",
     isImageBased |-> isImageBased,
     model |-> IF isImageBased THEN ModelHigh ELSE ModelLow,
     withText |-> withText,
     images |-> images]

Throw(msg) ==
    [throws |-> msg, isImageBased |-> FALSE, model |-> "", withText |-> FALSE, images |-> <<>>]

\* BuildRequest with the tier chosen by the early-exit threshold: any text
\* shorter than it takes the high tier when images exist.
BuildRequestTierByEarlyExit(textLength, imageDataUrls) ==
    LET hasImages == Len(imageDataUrls) > 0 IN
    IF ~(textLength >= EARLY_EXIT_TEXT /\ ~hasImages) /\ textLength < MIN_TEXT /\ ~hasImages
    THEN Throw(MsgNoSignal)
    ELSE IF hasImages
    THEN IF Len(ValidImages(imageDataUrls)) = 0
         THEN Throw(MsgPrepImages)
         ELSE Call(textLength < EARLY_EXIT_TEXT, textLength >= MIN_TEXT,
                   ValidImages(imageDataUrls))
    ELSE IF textLength < MIN_TEXT
    THEN Throw(MsgCannotProcess)
    ELSE Call(FALSE, TRUE, <<>>)

\* BuildRequest without the two no-signal checks: a short text without
\* images is sent as a text-only request.
BuildRequestWithoutSignalCheck(textLength, imageDataUrls) ==
    LET hasImages == Len(imageDataUrls) > 0 IN
    IF hasImages
    THEN IF Len(ValidImages(imageDataUrls)) = 0
         THEN Throw(MsgPrepImages)
         ELSE Call(textLength < MIN_TEXT, textLength >= MIN_TEXT, ValidImages(imageDataUrls))
    ELSE Call(FALSE, TRUE, <<>>)

\* Mode selection and request building, from the joined extraction results to
\* the inference call.
BuildRequest(textLength, imageDataUrls) ==
    LET hasImages == Len(imageDataUrls) > 0 IN
    IF ~(textLength >= EARLY_EXIT_TEXT /\ ~hasImages) /\ textLength < MIN_TEXT /\ ~hasImages
    THEN Throw(MsgNoSignal)
    ELSE IF hasImages
    THEN IF Len(ValidImages(imageDataUrls)) = 0
         THEN Throw(MsgPrepImages)
         ELSE Call(textLength < MIN_TEXT, textLength >= MIN_TEXT, ValidImages(imageDataUrls))
    ELSE IF textLength < MIN_TEXT
    THEN Throw(MsgCannotProcess)
    ELSE Call(FALSE, TRUE, <<>>)

\* ReadResponse without the call of reorderResumeData: the parsed object is
\* the result.
ReadResponseAsParsed(content, isImageBased, textLength) ==
    IF Falsy(content) \/ Trim(content) = "" \/ content = ContentPlaceholder
    THEN [throws |-> MsgInferenceEmpty, result |-> <<>>]
    ELSE IF JSONParse(content) = <<>>
    THEN [throws |-> MsgMalformed, result |-> <<>>]
    ELSE IF isEmpty(JSONParse(content)[1]) /\ (isImageBased \/ textLength < MIN_TEXT)
    THEN [throws |-> MsgExtractionEmpty, result |-> <<>>]
    ELSE [throws |-> "", result |-> <<JSONParse(content)[1]>>]

\* ReadResponse with every empty result treated as a failure, whatever the
\* length of the text.
ReadResponseEmptyAlwaysFails(content, isImageBased, textLength) ==
    IF Falsy(content) \/ Trim(content) = "" \/ content = ContentPlaceholder
    THEN [throws |-> MsgInferenceEmpty, result |-> <<>>]
    ELSE IF JSONParse(content) = <<>>
    THEN [throws |-> MsgMalformed, result |-> <<>>]
    ELSE IF isEmpty(JSONParse(content)[1])
    THEN [throws |-> MsgExtractionEmpty, result |-> <<>>]
    ELSE [throws |-> "", result |-> <<reorderResumeData(JSONParse(content)[1])>>]

\* ReadResponse without the comparison of the content to the placeholder.
ReadResponseWithoutPlaceholderCheck(content, isImageBased, textLength) ==
    IF Falsy(content) \/ Trim(content) = ""
    THEN [throws |-> MsgInferenceEmpty, result |-> <<>>]
    ELSE IF JSONParse(content) = <<>>
    THEN [throws |-> MsgMalformed, result |-> <<>>]
    ELSE IF isEmpty(JSONParse(content)[1]) /\ (isImageBased \/ textLength < MIN_TEXT)
    THEN [throws |-> MsgExtractionEmpty, result |-> <<>>]
    ELSE [throws |-> "", result |-> <<reorderResumeData(JSONParse(content)[1])>>]

\* The checks of the inference response, up to the normalized result.
ReadResponse(content, isImageBased, textLength) ==
    IF Falsy(content) \/ Trim(content) = "" \/ content = ContentPlaceholder
    THEN [throws |-> MsgInferenceEmpty, result |-> <<>>]
    ELSE IF JSONParse(content) = <<>>
    THEN [throws |-> MsgMalformed, result |-> <<>>]
    ELSE IF isEmpty(JSONParse(content)[1]) /\ (isImageBased \/ textLength < MIN_TEXT)
    THEN [throws |-> MsgExtractionEmpty, result |-> <<>>]
    ELSE [throws |-> "", result |-> <<reorderResumeData(JSONParse(content)[1])>>]

\* ------------------------------------------------------------ the store

AuditEntry(action, status, message) ==
    [action |-> action, status |-> status, message |-> message]

UploadEntry == AuditEntry("upload", "success", <<"File uploaded successfully">>)
ExtractSuccessEntry == AuditEntry("extract", "success", <<"Resume data extracted successfully">>)
ExtractFailedEntry(msg) == AuditEntry("extract", "failed", <<"Processing failed: ", msg>>)

\* The four writes of the success commit.
CommitWrites == {"status", "data", "audit", "debit"}

\* ---------------------------------------------------------- the inputs

\* The pages a document can hold: no image, an error while the page is read,
\* an image at the byte floor, an image just above it, an image whose data
\* URL is too large followed by the largest PNG within the limit, and an
\* image that is too large alone.
PageKinds ==
    {[error |-> FALSE, xobjects |-> <<>>],
     [error |-> TRUE, xobjects |-> <<>>],
     [error |-> FALSE, xobjects |-> <<XObject(1000, "png")>>],
     [error |-> FALSE, xobjects |-> <<XObject(1001, "jpeg")>>],
     [error |-> FALSE, xobjects |-> <<XObject(2999983, "jpeg"), XObject(2999982, "png")>>],
     [error |-> FALSE, xobjects |-> <<XObject(2999983, "other")>>]}

\* Sequences of at most n elements of S.
SeqUpTo(S, n) == UNION {[1..k -> S] : k \in 0..n}

\* A document has at most this many pages.
MaxPages == 4

\* The conversion service answers with at most this many URLs.
MaxUrls == 4

\* The documents: whether pdf-lib opens them, and their pages.
Documents ==
    {[open |-> "noModule", pages |-> <<>>], [open |-> "loadFails", pages |-> <<>>]}
    \cup {[open |-> "ok", pages |-> pages] : pages \in SeqUpTo(PageKinds, MaxPages)}

\* What one download of a converted page can give: a thrown fetch, a status
\* that is not OK, a small image, the largest image within the limit and
\* the smallest above it.
DownloadKinds ==
    {[kind |-> "throws", bytes |-> 0], [kind |-> "notOk", bytes |-> 0],
     [kind |-> "ok", bytes |-> 1001],
     [kind |-> "ok", bytes |-> 2999982], [kind |-> "ok", bytes |-> 2999983]}

\* What convertData.body can hold: a small image, one with line breaks in
\* its base64, one of 5,000,000 characters, one of 20,000,000 characters.
InlineBodies ==
    {DataUrl("png", 1336, TRUE), DataUrl("png", 1336, FALSE),
     DataUrl("png", 5000000, TRUE), DataUrl("png", 20000000, TRUE)}

Api(key, upload, convert, urls, body) ==
    [key |-> key, upload |-> upload, convert |-> convert, urls |-> urls, body |-> body]

\* The rasterization capability: whether PDFCO_API_KEY is set, and the
\* answers of the service to the upload, the conversion and the downloads.
Apis ==
    {Api(FALSE, "ok", "ok", <<>>, <<>>)}
    \cup {Api(TRUE, upload, "ok", <<>>, <<>>) : upload \in {"throws", "notOk", "noUrl"}}
    \cup {Api(TRUE, "ok", convert, <<>>, <<>>) : convert \in {"throws", "notOk", "ok"}}
    \cup {Api(TRUE, "ok", "ok", urls, <<>>) : urls \in SeqUpTo(DownloadKinds, MaxUrls) \ {<<>>}}
    \cup {Api(TRUE, "ok", "ok", <<>>, <<body>>) : body \in InlineBodies}

PageEmpty == [error |-> FALSE, xobjects |-> <<>>]
PageJpeg == [error |-> FALSE, xobjects |-> <<XObject(1001, "jpeg")>>]

\* A few documents: unreadable, without pages, one and two pages without
\* images, one page with an image, four pages with an image each.
SampleDocuments ==
    {[open |-> "loadFails", pages |-> <<>>],
     [open |-> "ok", pages |-> <<>>],
     [open |-> "ok", pages |-> <<PageEmpty>>],
     [open |-> "ok", pages |-> <<PageEmpty, PageEmpty>>],
     [open |-> "ok", pages |-> <<PageJpeg>>],
     [open |-> "ok", pages |-> <<PageJpeg, PageJpeg, PageJpeg, PageJpeg>>]}

\* A few conversion services: not configured, failing, answering with one
\* empty download, with a good and an empty download, and with an inline
\* body of 20,000,000 characters.
SampleApis ==
    {Api(FALSE, "ok", "ok", <<>>, <<>>),
     Api(TRUE, "notOk", "ok", <<>>, <<>>),
     Api(TRUE, "ok", "ok", <<[kind |-> "ok", bytes |-> 0]>>, <<>>),
     Api(TRUE, "ok", "ok", <<[kind |-> "ok", bytes |-> 1001], [kind |-> "ok", bytes |-> 0]>>, <<>>),
     Api(TRUE, "ok", "ok", <<>>, <<DataUrl("png", 20000000, TRUE)>>)}

\* What the environment of a run can produce: the route a request is sent
\* to, the outcomes of the text extraction, the document and the conversion
\* service the image path sees, and the content of the completion.
AllInputs ==
    [routes |-> {"upload", "extract"},
     textLens |-> TextLens,
     rawTexts |-> {"read"},
     textErrors |-> ParserErrors,
     documents |-> SampleDocuments,
     apis |-> SampleApis,
     contents |-> Contents]

\* A short and a sufficient text or a parser error, a document with or
\* without an embedded image, no conversion service, answered in full.
JoinInputs ==
    [routes |-> {"upload"},
     textLens |-> {49, MIN_TEXT},
     rawTexts |-> {"read"},
     textErrors |-> ParserErrors,
     documents |-> {[open |-> "ok", pages |-> <<PageEmpty>>],
                    [open |-> "ok", pages |-> <<PageJpeg>>]},
     apis |-> {Api(FALSE, "ok", "ok", <<>>, <<>>)},
     contents |-> {ContentFull}]

\* Every document and every conversion service, for a short and a long
\* text, answered in full.
ImageInputs ==
    [routes |-> {"upload"},
     textLens |-> {0, EARLY_EXIT_TEXT},
     rawTexts |-> {"read"},
     textErrors |-> ParserErrors,
     documents |-> Documents,
     apis |-> Apis,
     contents |-> {ContentFull}]

\* One text-based document of one page without images, no conversion
\* service, answered in full or not at all.
TextDocument ==
    [routes |-> {"upload"},
     textLens |-> {EARLY_EXIT_TEXT},
     rawTexts |-> {"read"},
     textErrors |-> ParserErrors,
     documents |-> {[open |-> "ok", pages |-> <<[error |-> FALSE, xobjects |-> <<>>]>>]},
     apis |-> {Api(FALSE, "ok", "ok", <<>>, <<>>)},
     contents |-> {ContentFull, ContentNull}]

\* A document without text or with a sufficient text, the reading of the
\* text content succeeding or throwing, a document with or without an
\* embedded image, no conversion service, answered in full.
RaceInputs ==
    [routes |-> {"upload"},
     textLens |-> {0, EARLY_EXIT_TEXT},
     rawTexts |-> {"read", "threw"},
     textErrors |-> ParserErrors,
     documents |-> {[open |-> "ok", pages |-> <<PageEmpty>>],
                    [open |-> "ok", pages |-> <<PageJpeg>>]},
     apis |-> {Api(FALSE, "ok", "ok", <<>>, <<>>)},
     contents |-> {ContentFull}]

\* A text just below and at the threshold of 50 characters, a document with
\* or without an embedded image, no conversion service, answered in full,
\* for a request to the upload route and for a request to the extract route.
ToUpload ==
    [routes |-> {"upload"},
     textLens |-> {49, MIN_TEXT},
     rawTexts |-> {"read"},
     textErrors |-> ParserErrors,
     documents |-> {[open |-> "ok", pages |-> <<PageEmpty>>],
                    [open |-> "ok", pages |-> <<PageJpeg>>]},
     apis |-> {Api(FALSE, "ok", "ok", <<>>, <<>>)},
     contents |-> {ContentFull}]

ToExtract == [ToUpload EXCEPT !.routes = {"extract"}]

\* ------------------------------------------------------ the upload route

InitReq ==
    [pc |-> "idle", route |-> "", creditsRead |-> <<>>, fileRecord |-> FALSE,
     textState |-> "idle", tempFile |-> "none", resolved |-> FALSE,
     events |-> <<>>, rawText |-> "", textEvent |-> "", textErr |-> "",
     textLength |-> 0, first |-> "",
     imgState |-> "idle", pageCount |-> 0, scan |-> <<>>, invoked |-> {},
     downloads |-> <<>>, completion |-> <<>>, imgPath |-> "", imgErr |-> "",
     imageDataUrls |-> <<>>,
     call |-> <<>>, content |-> <<>>, result |-> <<>>, err |-> "",
     response |-> NoResponse, pending |-> {}, recorded |-> "no"]

\* The component after its first render: useState(null), useState(false),
\* and no call of handleUpload yet.
InitUi ==
    [result |-> <<>>, loading |-> FALSE, started |-> <<>>,
     pc |-> [u \in Requests |-> "idle"],
     res |-> [u \in Requests |-> NoResponse]]

Init ==
    /\ credits \in InitCredits
    /\ files = [j \in Requests |-> "none"]
    /\ resumeData = [j \in Requests |-> <<>>]
    /\ history = [j \in Requests |-> <<>>]
    /\ req = [r \in Requests |-> InitReq]
    /\ faults = 0
    /\ ui = InitUi

Set(r, rec) == req' = [req EXCEPT ![r] = rec]

Respond(rec, response) == [rec EXCEPT !.pc = "done", !.response = response]

\* A call of a collaborator may fail while the fault budget lasts.
MayFail == faults < MaxFaults

\* Entry of the catch block with the error thrown in the try block: the user
\* message is chosen, and the failure is recorded when a job record exists.
\* Catch with the failure recorded whether or not a job record exists.
CatchAlwaysRecording(rec, msg) == [rec EXCEPT !.pc = "failStatus", !.err = msg]

Catch(rec, msg) ==
    IF rec.fileRecord
    THEN [rec EXCEPT !.pc = "failStatus", !.err = msg]
    ELSE Respond([rec EXCEPT !.err = msg], ErrorResponse(500, UserMessage(msg)))

\* The client sends the request to one of the two routes.
Dispatch(r, in) ==
    /\ req[r].pc = "idle"
    /\ \E route \in in.routes :
          Set(r, [req[r] EXCEPT !.route = route,
                                !.pc = IF route = "upload" THEN "session" ELSE "x.formData"])
    /\ UNCHANGED <<credits, files, resumeData, history, faults, ui>>

\* getServerSession
Authenticate(r) ==
    /\ req[r].pc = "session"
    /\ \E session \in BOOLEAN :
          IF session
          THEN Set(r, [req[r] EXCEPT !.pc = "findUser"])
          ELSE Set(r, Respond(req[r], ErrorResponse(401, "Unauthorized")))
    /\ UNCHANGED <<credits, files, resumeData, history, faults, ui>>

InsufficientCredits(balance) ==
    [status |-> 402, error |-> "Insufficient credits", data |-> <<>>,
     creditsRemaining |-> balance, creditsRequired |-> CREDITS_REQUIRED]

\* CheckCredits with the balance compared to zero instead of the cost.
CheckCreditsAgainstZero(rec, balance) ==
    IF balance < 0
    THEN Respond([rec EXCEPT !.creditsRead = <<balance>>], InsufficientCredits(balance))
    ELSE [rec EXCEPT !.creditsRead = <<balance>>, !.pc = "formData"]

\* The credit sufficiency check on the balance read.
CheckCredits(rec, balance) ==
    IF balance < CREDITS_REQUIRED
    THEN Respond([rec EXCEPT !.creditsRead = <<balance>>], InsufficientCredits(balance))
    ELSE [rec EXCEPT !.creditsRead = <<balance>>, !.pc = "formData"]

\* prisma.user.findUnique and the credit sufficiency check
FindUser(r) ==
    /\ req[r].pc = "findUser"
    /\ \E found \in BOOLEAN :
          IF ~found
          THEN Set(r, Respond(req[r], ErrorResponse(404, "User not found")))
          ELSE Set(r, CheckCredits(req[r], credits))
    /\ UNCHANGED <<credits, files, resumeData, history, faults, ui>>

FindUserFails(r) ==
    /\ req[r].pc = "findUser"
    /\ MayFail
    /\ \E msg \in StoreErrors : Set(r, Catch(req[r], msg))
    /\ faults' = faults + 1
    /\ UNCHANGED <<credits, files, resumeData, history, ui>>

\* req.formData and file.arrayBuffer
ReadForm(r) ==
    /\ req[r].pc = "formData"
    /\ \E file \in BOOLEAN :
          IF file
          THEN Set(r, [req[r] EXCEPT !.pc = "createFile"])
          ELSE Set(r, Respond(req[r], ErrorResponse(400, "No file uploaded")))
    /\ UNCHANGED <<credits, files, resumeData, history, faults, ui>>

\* prisma.file.create with status processing
CreateFile(r) ==
    /\ req[r].pc = "createFile"
    /\ files' = [files EXCEPT ![r] = "processing"]
    /\ Set(r, [req[r] EXCEPT !.fileRecord = TRUE, !.pc = "uploadAudit"])
    /\ UNCHANGED <<credits, resumeData, history, faults, ui>>

CreateFileFails(r) ==
    /\ req[r].pc = "createFile"
    /\ MayFail
    /\ \E msg \in StoreErrors : Set(r, Catch(req[r], msg))
    /\ faults' = faults + 1
    /\ UNCHANGED <<credits, files, resumeData, history, ui>>

\* What follows the upload audit write: both extractions are started.
StartExtraction(rec) ==
    [rec EXCEPT !.pc = "extracting", !.textState = "running", !.imgState = "running"]

\* prisma.resumeHistory.create of the upload entry
UploadAudit(r) ==
    /\ req[r].pc = "uploadAudit"
    /\ history' = [history EXCEPT ![r] = Append(@, UploadEntry)]
    /\ Set(r, StartExtraction(req[r]))
    /\ UNCHANGED <<credits, files, resumeData, faults, ui>>

\* UploadAuditFails with the error swallowed: the extractions start although
\* no upload entry was written.
UploadAuditFailsSwallowed(r) ==
    /\ req[r].pc = "uploadAudit"
    /\ MayFail
    /\ Set(r, StartExtraction(req[r]))
    /\ faults' = faults + 1
    /\ UNCHANGED <<credits, files, resumeData, history, ui>>

UploadAuditFails(r) ==
    /\ req[r].pc = "uploadAudit"
    /\ MayFail
    /\ \E msg \in StoreErrors : Set(r, Catch(req[r], msg))
    /\ faults' = faults + 1
    /\ UNCHANGED <<credits, files, resumeData, history, ui>>

\* fs.writeFile creates the temporary file; the parser and the timer of
\* the race are started.
WriteTemp(r) ==
    /\ req[r].textState = "running"
    /\ Set(r, [req[r] EXCEPT !.textState = "parsing", !.tempFile = "exists"])
    /\ UNCHANGED <<credits, files, resumeData, history, faults, ui>>

\* fs.writeFile fails, with or without a file left behind.
WriteTempFails(r) ==
    /\ req[r].textState = "running"
    /\ MayFail
    /\ \E left \in {"none", "exists"} :
          Set(r, [req[r] EXCEPT !.textState = "catch", !.tempFile = left,
                                !.textErr = MsgTextWrite])
    /\ faults' = faults + 1
    /\ UNCHANGED <<credits, files, resumeData, history, ui>>

\* A promise that settles a second time, with the last event winning.
RaceSettleLastWins(rec, event, n, msg) ==
    [rec EXCEPT !.textEvent = event, !.textLength = n, !.textErr = msg,
                !.textState = IF event = "ready" THEN "unlink" ELSE "catch"]

\* One of the two promises of the Promise.race settles: the race settles
\* with the first, the awaiting function goes on to the unlink of its try or
\* its catch block, and a promise that has settled stays as it is.
RaceSettle(rec, event, n, msg) ==
    IF rec.textEvent # ""
    THEN rec
    ELSE [rec EXCEPT !.textEvent = event, !.textLength = n, !.textErr = msg,
                     !.textState = IF event = "ready" THEN "unlink" ELSE "catch"]

\* A handler that lets the failure of getRawTextContent reject the promise.
OnDataReadyRethrowing(rec, raw, n) ==
    IF rec.resolved
    THEN rec
    ELSE LET first == [rec EXCEPT !.resolved = TRUE, !.rawText = raw] IN
         IF raw = "threw"
         THEN RaceSettle(first, "error", 0, MsgTextParser)
         ELSE RaceSettle(first, "ready", n, "")

\* The handler of pdfParser_dataReady: under the resolved flag, the promise
\* resolves with the trimmed text, or with the empty text when reading the
\* content throws.
OnDataReady(rec, raw, n) ==
    IF rec.resolved
    THEN rec
    ELSE RaceSettle([rec EXCEPT !.resolved = TRUE, !.rawText = raw],
                    "ready", IF raw = "threw" THEN 0 ELSE n, "")

\* The handler of pdfParser_dataError: under the resolved flag, the promise
\* rejects.
OnDataError(rec, msg) ==
    IF rec.resolved
    THEN rec
    ELSE RaceSettle([rec EXCEPT !.resolved = TRUE], "error", 0, msg)

\* The callback of setTimeout rejects the second promise of the race.
OnTimer(rec) == RaceSettle(rec, "timeout", 0, MsgTextTimeout)

\* The events of the parser and the timer in the order they arrived.
Arrived(rec, event) == [rec EXCEPT !.events = Append(@, event)]

\* pdfParser_dataReady is the first event of the race.
ParserReady(r, in) ==
    /\ req[r].textState = "parsing"
    /\ \E n \in in.textLens, raw \in in.rawTexts :
          Set(r, Arrived(OnDataReady(req[r], raw, n), "ready"))
    /\ UNCHANGED <<credits, files, resumeData, history, faults, ui>>

\* pdfParser_dataError is the first event of the race.
ParserError(r, in) ==
    /\ req[r].textState = "parsing"
    /\ \E msg \in in.textErrors :
          Set(r, Arrived(OnDataError(req[r], msg), "error"))
    /\ UNCHANGED <<credits, files, resumeData, history, faults, ui>>

\* The timer of 30 seconds is the first event of the race.
ParseTimeout(r) ==
    /\ req[r].textState = "parsing"
    /\ Set(r, Arrived(OnTimer(req[r]), "timeout"))
    /\ UNCHANGED <<credits, files, resumeData, history, faults, ui>>

\* An event of the parser, or the timer that is never cleared, arrives after
\* the race has settled, at any later moment of the request or after it.
LateEvent(r, in) ==
    /\ req[r].textEvent # ""
    /\ \/ /\ "ready" \notin Range(req[r].events)
          /\ \E n \in in.textLens, raw \in in.rawTexts :
                Set(r, Arrived(OnDataReady(req[r], raw, n), "ready"))
       \/ /\ "error" \notin Range(req[r].events)
          /\ \E msg \in in.textErrors :
                Set(r, Arrived(OnDataError(req[r], msg), "error"))
       \/ /\ "timeout" \notin Range(req[r].events)
          /\ Set(r, Arrived(OnTimer(req[r]), "timeout"))
    /\ UNCHANGED <<credits, files, resumeData, history, faults, ui>>

\* What follows the unlink of either branch: the text is returned, or the
\* wrapped error is thrown, which rejects the Promise.all at once.
AfterUnlink(rec) ==
    IF rec.textState = "unlink"
    THEN [rec EXCEPT !.textState = "ok",
                     !.first = IF rec.imgState = "done" THEN @ ELSE "text"]
    ELSE Catch([rec EXCEPT !.textState = "failed"], rec.textErr)

\* fs.unlink deletes the temporary file, after the race or in the catch
\* block (where a file that was never written makes it fail unnoticed).
Unlink(r) ==
    /\ req[r].textState \in {"unlink", "catch"}
    /\ Set(r, AfterUnlink([req[r] EXCEPT
                 !.tempFile = IF @ = "exists" THEN "deleted" ELSE @]))
    /\ UNCHANGED <<credits, files, resumeData, history, faults, ui>>

\* fs.unlink fails on the existing file: the failure is logged.
UnlinkFails(r) ==
    /\ req[r].textState \in {"unlink", "catch"}
    /\ req[r].tempFile = "exists"
    /\ MayFail
    /\ Set(r, AfterUnlink(req[r]))
    /\ faults' = faults + 1
    /\ UNCHANGED <<credits, files, resumeData, history, ui>>

\* extractImagesAsBase64(buffer).catch(() => []) settles: the images, or
\* the empty list in place of the error.
ImagesSettled(rec, out) ==
    [rec EXCEPT !.imgState = "done",
                !.first = IF rec.textState \in {"ok", "failed"} THEN @ ELSE "images",
                !.imageDataUrls = IF out.throws # "" THEN <<>> ELSE out.images,
                !.imgPath = out.path,
                !.imgErr = ImgRethrow(out.throws)]

\* ScanEmbedded calling the fallback whenever the scan did not throw, also
\* when it found embedded images.
ScanEmbeddedThenFallback(r, in) ==
    /\ req[r].imgState = "running"
    /\ \E doc \in in.documents :
          LET out == EmbeddedScan(doc)
              rec == [req[r] EXCEPT !.pageCount = Len(doc.pages), !.scan = ScanTrace(doc)] IN
          IF out.throws = ""
          THEN Set(r, [rec EXCEPT !.imgState = "fallback"])
          ELSE Set(r, ImagesSettled(rec, out))
    /\ UNCHANGED <<credits, files, resumeData, history, faults, ui>>

\* extractImagesAsBase64 scans the first pages for embedded images: it
\* returns them, throws, or calls the fallback.
ScanEmbedded(r, in) ==
    /\ req[r].imgState = "running"
    /\ \E doc \in in.documents :
          LET out == EmbeddedScan(doc)
              rec == [req[r] EXCEPT !.pageCount = Len(doc.pages), !.scan = ScanTrace(doc)] IN
          IF out.throws = "" /\ out.images = <<>>
          THEN Set(r, [rec EXCEPT !.imgState = "fallback"])
          ELSE Set(r, ImagesSettled(rec, out))
    /\ UNCHANGED <<credits, files, resumeData, history, faults, ui>>

\* convertPdfToImageViaApi uploads the document and has it converted: it
\* throws, returns the inline image, or starts the downloads of the pages.
Rasterize(r, in) ==
    /\ req[r].imgState = "fallback"
    /\ \E api \in in.apis :
          LET out == convertPdfToImageViaApi(req[r].pageCount, api)
              rec == [req[r] EXCEPT !.invoked = Invoked(api)] IN
          IF out.path = "downloads"
          THEN Set(r, [rec EXCEPT !.imgState = "downloading",
                                  !.downloads = StartDownloads(out.urls)])
          ELSE Set(r, ImagesSettled(rec, out))
    /\ UNCHANGED <<credits, files, resumeData, history, faults, ui>>

\* What follows the settling of a download: Promise.all resolves with the
\* last of them.
AfterDownload(rec) ==
    IF \A i \in DOMAIN rec.downloads : rec.downloads[i].done
    THEN ImagesSettled(rec, DownloadsResult(rec.downloads))
    ELSE rec

\* DownloadDone with the values collected in the order in which the
\* downloads settle, not in the order of the URLs.
DownloadDoneAsSettled(r) ==
    /\ req[r].imgState = "downloading"
    /\ \E i \in DOMAIN req[r].downloads :
          /\ ~req[r].downloads[i].done
          /\ Set(r, AfterDownload([req[r] EXCEPT
                       !.downloads[i].done = TRUE,
                       !.downloads[Len(req[r].completion) + 1].image =
                           Download(req[r].downloads[i].dl),
                       !.completion = Append(@, i)]))
    /\ UNCHANGED <<credits, files, resumeData, history, faults, ui>>

\* One of the downloads settles, in any order: its promise resolves to the
\* data URL or to null.
DownloadDone(r) ==
    /\ req[r].imgState = "downloading"
    /\ \E i \in DOMAIN req[r].downloads :
          /\ ~req[r].downloads[i].done
          /\ Set(r, AfterDownload([req[r] EXCEPT
                       !.downloads[i].done = TRUE,
                       !.downloads[i].image = Download(req[r].downloads[i].dl),
                       !.completion = Append(@, i)]))
    /\ UNCHANGED <<credits, files, resumeData, history, faults, ui>>

\* SelectMode run as soon as the text is there, with the images the image
\* path has delivered by then.
SelectModeWithoutJoin(r) ==
    /\ req[r].pc = "extracting"
    /\ req[r].textState = "ok"
    /\ LET call == BuildRequest(req[r].textLength, req[r].imageDataUrls) IN
       IF call.throws # ""
       THEN Set(r, Catch(req[r], call.throws))
       ELSE Set(r, [req[r] EXCEPT !.pc = "inference", !.call = <<call>>])
    /\ UNCHANGED <<credits, files, resumeData, history, faults, ui>>

\* The join of the two extractions, mode selection and request building, up
\* to the call of openai.chat.completions.create.
SelectMode(r) ==
    /\ req[r].pc = "extracting"
    /\ req[r].textState = "ok"
    /\ req[r].imgState = "done"
    /\ LET call == BuildRequest(req[r].textLength, req[r].imageDataUrls) IN
       IF call.throws # ""
       THEN Set(r, Catch(req[r], call.throws))
       ELSE Set(r, [req[r] EXCEPT !.pc = "inference", !.call = <<call>>])
    /\ UNCHANGED <<credits, files, resumeData, history, faults, ui>>

\* What follows a usable result: the four writes of the success commit are
\* started together.
StartCommit(rec, result) ==
    [rec EXCEPT !.pc = "awaitCommit", !.result = result, !.pending = CommitWrites]

\* The completion arrives; its content is checked, parsed and normalized.
Inference(r, in) ==
    /\ req[r].pc = "inference"
    /\ \E content \in in.contents :
          LET read == ReadResponse(content, req[r].call[1].isImageBased, req[r].textLength)
              rec == [req[r] EXCEPT !.content = <<content>>] IN
          IF read.throws # ""
          THEN Set(r, Catch(rec, read.throws))
          ELSE Set(r, StartCommit(rec, read.result))
    /\ UNCHANGED <<credits, files, resumeData, history, faults, ui>>

InferenceFails(r) ==
    /\ req[r].pc = "inference"
    /\ MayFail
    /\ Set(r, Catch(req[r], MsgOpenAI))
    /\ faults' = faults + 1
    /\ UNCHANGED <<credits, files, resumeData, history, ui>>

\* The effect on the store of one write of the success commit.
ApplyCommitWrite(r, w) ==
    /\ files' = IF w = "status" THEN [files EXCEPT ![r] = "completed"] ELSE files
    /\ resumeData' = IF w = "data" THEN [resumeData EXCEPT ![r] = req[r].result] ELSE resumeData
    /\ history' = IF w = "audit"
                  THEN [history EXCEPT ![r] = Append(@, ExtractSuccessEntry)]
                  ELSE history
    /\ credits' = IF w = "debit" THEN credits - CREDITS_REQUIRED ELSE credits

\* One of the four writes started by Promise.all is done by the store.
CommitWrite(r) ==
    /\ \E w \in req[r].pending :
          /\ ApplyCommitWrite(r, w)
          /\ Set(r, [req[r] EXCEPT !.pending = @ \ {w}])
    /\ UNCHANGED <<faults, ui>>

\* The request's side of a failed commit write: the first failure rejects
\* the Promise.all, and the writes still in flight stay in flight.
CommitRejected(rec, w, msg) ==
    IF rec.pc = "awaitCommit"
    THEN Catch([rec EXCEPT !.pending = @ \ {w}], msg)
    ELSE [rec EXCEPT !.pending = @ \ {w}]

\* One of the four writes fails.
CommitWriteFails(r) ==
    /\ MayFail
    /\ \E w \in req[r].pending, msg \in StoreErrors :
          Set(r, CommitRejected(req[r], w, msg))
    /\ faults' = faults + 1
    /\ UNCHANGED <<credits, files, resumeData, history, ui>>

\* CommitDone without the await: the result is returned while writes of the
\* commit are still in flight.
CommitDoneNotAwaited(r) ==
    /\ req[r].pc = "awaitCommit"
    /\ Set(r, Respond(req[r], ResultResponse(req[r].result[1])))
    /\ UNCHANGED <<credits, files, resumeData, history, faults, ui>>

\* All four writes are done: the result is returned.
CommitDone(r) ==
    /\ req[r].pc = "awaitCommit"
    /\ req[r].pending = {}
    /\ Set(r, Respond(req[r], ResultResponse(req[r].result[1])))
    /\ UNCHANGED <<credits, files, resumeData, history, faults, ui>>

\* The error response of the catch block.
RespondError(rec) == Respond(rec, ErrorResponse(500, UserMessage(rec.err)))

\* prisma.file.update to status failed
FailStatus(r) ==
    /\ req[r].pc = "failStatus"
    /\ files' = [files EXCEPT ![r] = "failed"]
    /\ Set(r, [req[r] EXCEPT !.pc = "failAudit"])
    /\ UNCHANGED <<credits, resumeData, history, faults, ui>>

\* FailStatusFails with the error of the failed write taking the place of
\* the original error.
FailStatusFailsMasking(r) ==
    /\ req[r].pc = "failStatus"
    /\ MayFail
    /\ \E msg \in StoreErrors :
          Set(r, RespondError([req[r] EXCEPT !.recorded = "status rejected", !.err = msg]))
    /\ faults' = faults + 1
    /\ UNCHANGED <<credits, files, resumeData, history, ui>>

\* The write of the failed status fails: the inner catch logs it.
FailStatusFails(r) ==
    /\ req[r].pc = "failStatus"
    /\ MayFail
    /\ Set(r, RespondError([req[r] EXCEPT !.recorded = "status rejected"]))
    /\ faults' = faults + 1
    /\ UNCHANGED <<credits, files, resumeData, history, ui>>

\* prisma.resumeHistory.create of the extract/failed entry
FailAudit(r) ==
    /\ req[r].pc = "failAudit"
    /\ history' = [history EXCEPT ![r] = Append(@, ExtractFailedEntry(req[r].err))]
    /\ Set(r, RespondError([req[r] EXCEPT !.recorded = "both"]))
    /\ UNCHANGED <<credits, files, resumeData, faults, ui>>

\* The write of the extract/failed entry fails: the inner catch logs it.
FailAuditFails(r) ==
    /\ req[r].pc = "failAudit"
    /\ MayFail
    /\ Set(r, RespondError([req[r] EXCEPT !.recorded = "audit rejected"]))
    /\ faults' = faults + 1
    /\ UNCHANGED <<credits, files, resumeData, history, ui>>

\* The steps of the upload route in which no collaborator fails.
Upload(r, in) ==
    \/ Authenticate(r)
    \/ FindUser(r)
    \/ ReadForm(r)
    \/ CreateFile(r)
    \/ UploadAudit(r)
    \/ WriteTemp(r)
    \/ ParserReady(r, in)
    \/ ParserError(r, in)
    \/ ParseTimeout(r)
    \/ Unlink(r)
    \/ ScanEmbedded(r, in)
    \/ Rasterize(r, in)
    \/ SelectMode(r)
    \/ Inference(r, in)
    \/ CommitWrite(r)
    \/ CommitDone(r)
    \/ FailStatus(r)
    \/ FailAudit(r)

\* The steps in which a call of the store or of the inference service fails.
UploadFault(r) ==
    \/ FindUserFails(r)
    \/ CreateFileFails(r)
    \/ UploadAuditFails(r)
    \/ WriteTempFails(r)
    \/ UnlinkFails(r)
    \/ InferenceFails(r)
    \/ CommitWriteFails(r)
    \/ FailStatusFails(r)
    \/ FailAuditFails(r)

\* ----------------------------------------------------- the extract route

XMsgNoPages ==
    "PDF has no pages"
XMsgNoImages ==
    "No embedded images found in PDF. This PDF may not be a scanned/image-based PDF, or it uses vector graphics that cannot be extracted without rendering."
XMsgTooLarge ==
    "Image is too large (3907KB base64). Please use a smaller PDF."
XMsgText ==
    "<an error of pdfParser.getText>"
XMsgParse ==
    "Unexpected token S in JSON at position 0"

XOcrErrors == {XMsgNoPages, XMsgNoImages, XMsgTooLarge}

\* The catch block of the extract route.
XCatch(rec, msg) == Respond([rec EXCEPT !.err = msg], ErrorResponse(500, msg))

\* req.formData
XReadForm(r) ==
    /\ req[r].pc = "x.formData"
    /\ \E file \in BOOLEAN :
          IF file
          THEN Set(r, [req[r] EXCEPT !.pc = "x.getText"])
          ELSE Set(r, Respond(req[r], ErrorResponse(400, "No file uploaded")))
    /\ UNCHANGED <<credits, files, resumeData, history, faults, ui>>

\* XAfterText with OCR for every text below the early-exit threshold.
XAfterTextByEarlyExit(rec, n) ==
    IF n < EARLY_EXIT_TEXT
    THEN [rec EXCEPT !.textLength = n, !.pc = "x.ocr"]
    ELSE [rec EXCEPT !.textLength = n, !.pc = "x.inference",
                     !.call = <<Call(FALSE, TRUE, <<>>)>>]

\* What follows the text extraction: OCR for a short text, else the
\* text-only request.
XAfterText(rec, n) ==
    IF n < MIN_TEXT
    THEN [rec EXCEPT !.textLength = n, !.pc = "x.ocr"]
    ELSE [rec EXCEPT !.textLength = n, !.pc = "x.inference",
                     !.call = <<Call(FALSE, TRUE, <<>>)>>]

\* pdfParser.getText
XGetText(r, in) ==
    /\ req[r].pc = "x.getText"
    /\ \E n \in in.textLens : Set(r, XAfterText(req[r], n))
    /\ UNCHANGED <<credits, files, resumeData, history, faults, ui>>

XGetTextFails(r) ==
    /\ req[r].pc = "x.getText"
    /\ Set(r, XCatch(req[r], XMsgText))
    /\ UNCHANGED <<credits, files, resumeData, history, faults, ui>>

\* What follows extractImagesWithOCR: the image request when the data URL
\* matches, else the request holding the text alone.
XAfterOcr(rec, image) ==
    IF MatchesDataUrl(image)
    THEN [rec EXCEPT !.pc = "x.inference", !.imageDataUrls = <<image>>,
                     !.call = <<Call(TRUE, FALSE, <<image>>)>>]
    ELSE [rec EXCEPT !.pc = "x.inference", !.imageDataUrls = <<image>>,
                     !.call = <<Call(FALSE, TRUE, <<>>)>>]

\* extractImagesWithOCR returns the data URL of the first embedded image.
XOcr(r) ==
    /\ req[r].pc = "x.ocr"
    /\ Set(r, XAfterOcr(req[r], ImgGood))
    /\ UNCHANGED <<credits, files, resumeData, history, faults, ui>>

XOcrFails(r) ==
    /\ req[r].pc = "x.ocr"
    /\ \E msg \in XOcrErrors : Set(r, XCatch(req[r], msg))
    /\ UNCHANGED <<credits, files, resumeData, history, faults, ui>>

\* JSON.parse(content || "{}") and reorderResumeData
XReadResponse(content) ==
    LET text == IF Falsy(content) THEN ContentPlaceholder ELSE content IN
    IF JSONParse(text) = <<>>
    THEN [throws |-> XMsgParse, result |-> <<>>]
    ELSE [throws |-> "", result |-> <<reorderResumeData(JSONParse(text)[1])>>]

\* The completion arrives and the response is returned.
XInference(r, in) ==
    /\ req[r].pc = "x.inference"
    /\ \E content \in in.contents :
          LET read == XReadResponse(content)
              rec == [req[r] EXCEPT !.content = <<content>>] IN
          IF read.throws # ""
          THEN Set(r, XCatch(rec, read.throws))
          ELSE Set(r, Respond([rec EXCEPT !.result = read.result],
                              ResultResponse(read.result[1])))
    /\ UNCHANGED <<credits, files, resumeData, history, faults, ui>>

XInferenceFails(r) ==
    /\ req[r].pc = "x.inference"
    /\ MayFail
    /\ Set(r, XCatch(req[r], MsgOpenAI))
    /\ faults' = faults + 1
    /\ UNCHANGED <<credits, files, resumeData, history, ui>>

Extract(r, in) ==
    \/ XReadForm(r)
    \/ XGetText(r, in)
    \/ XGetTextFails(r)
    \/ XOcr(r)
    \/ XOcrFails(r)
    \/ XInference(r, in)
    \/ XInferenceFails(r)

\* ------------------------------------------- the PdfUploader component

\* The value a call of handleUpload hands to setResult, with the upload it
\* belongs to.
Shown(u, error, data) == [of |-> u, error |-> error, data |-> data]

\* The end of handleUpload: setResult in the try or the catch block, then
\* setLoading(false) in the finally block.
Finished(u, shown) ==
    [ui EXCEPT !.result = <<shown>>, !.loading = FALSE, !.pc[u] = "done"]

\* The change event of the file input calls handleUpload: without a file
\* it returns; with a file it sets the loading flag, clears the result and
\* sends the file to the extract route.
HandleUpload(u) ==
    /\ ui.pc[u] = "idle"
    /\ req[u].pc = "idle"
    /\ \E file \in BOOLEAN :
          IF file
          THEN /\ ui' = [ui EXCEPT !.loading = TRUE, !.result = <<>>,
                                    !.started = Append(@, u), !.pc[u] = "fetch"]
               /\ Set(u, [req[u] EXCEPT !.route = "extract", !.pc = "x.formData"])
          ELSE /\ ui' = [ui EXCEPT !.pc[u] = "returned"]
               /\ UNCHANGED req
    /\ UNCHANGED <<credits, files, resumeData, history, faults>>

\* fetch resolves with the response of the route.
FetchDone(u) ==
    /\ ui.pc[u] = "fetch"
    /\ req[u].pc = "done"
    /\ ui' = [ui EXCEPT !.pc[u] = "json", !.res[u] = req[u].response]
    /\ UNCHANGED <<credits, files, resumeData, history, req, faults>>

\* fetch rejects, the request having reached the route or not: the catch
\* block shows the message of the error.
FetchFails(u) ==
    /\ ui.pc[u] = "fetch"
    /\ ui' = Finished(u, Shown(u, "Failed to fetch", <<>>))
    /\ UNCHANGED <<credits, files, resumeData, history, req, faults>>

\* res.json resolves: a response that is not ok is thrown as an error and
\* shown by the catch block, the body of an ok response is shown.
JsonDone(u) ==
    /\ ui.pc[u] = "json"
    /\ LET res == ui.res[u] IN
       ui' = IF res.status \in 200..299
             THEN Finished(u, Shown(u, "", res.data))
             ELSE Finished(u, Shown(u, IF res.error # "" THEN res.error
                                       ELSE "Failed to parse PDF", <<>>))
    /\ UNCHANGED <<credits, files, resumeData, history, req, faults>>

\* ---------------------------------------------------- the specifications

\* One request, to either route, with every input and failing collaborators.
Next ==
    \/ Dispatch("r1", AllInputs)
    \/ Upload("r1", AllInputs)
    \/ DownloadDone("r1")
    \/ UploadFault("r1")
    \/ Extract("r1", AllInputs)

Spec == Init /\ [][Next]_vars

\* Two concurrent upload requests of the principal for a text-based
\* document, with collaborators that do not fail.
NextConcurrent ==
    \E r \in Requests : Dispatch(r, TextDocument) \/ Upload(r, TextDocument)

SpecConcurrent == Init /\ [][NextConcurrent]_vars

\* One upload request, over every document and conversion service, with
\* collaborators that do not fail.
NextImages ==
    \/ Dispatch("r1", ImageInputs)
    \/ Upload("r1", ImageInputs)
    \/ DownloadDone("r1")

\* The state after construction, with a balance of exactly the cost.
InitFunded == Init /\ credits = CREDITS_REQUIRED

SpecImages == InitFunded /\ [][NextImages]_vars

\* Two concurrent upload requests whose extractions finish in any order,
\* with collaborators that do not fail.
NextJoin ==
    \E r \in Requests : Dispatch(r, JoinInputs) \/ Upload(r, JoinInputs)

SpecJoin == Init /\ [][NextJoin]_vars

\* One upload request whose parser and timer go on raising events after
\* the race of the text extraction has settled.
NextRace ==
    \/ Dispatch("r1", RaceInputs)
    \/ Upload("r1", RaceInputs)
    \/ LateEvent("r1", RaceInputs)

SpecRace == InitFunded /\ [][NextRace]_vars

\* The same kinds of document sent to the upload route by one request and
\* to the extract route by another.
NextRoutes ==
    \/ Dispatch("r1", ToUpload)
    \/ Upload("r1", ToUpload)
    \/ Dispatch("r2", ToExtract)
    \/ Extract("r2", ToExtract)

SpecRoutes == Init /\ [][NextRoutes]_vars

\* The component with up to two uploads, each started at any moment, and
\* the extract route serving them.
NextUploader ==
    \E u \in Requests :
        \/ HandleUpload(u)
        \/ Extract(u, ToExtract)
        \/ FetchDone(u)
        \/ FetchFails(u)
        \/ JsonDone(u)

SpecUploader == InitFunded /\ [][NextUploader]_vars

\* ------------------------------------------------------------ the claims

\* The request has returned and none of its store writes is still in flight.
Settled(r) == req[r].pc = "done" /\ req[r].pending = {}

Uploads == {r \in Requests : req[r].route = "upload"}

\* The jobs: the upload requests that created a job record.
Jobs == {r \in Uploads : req[r].fileRecord}

HasEntry(j, entry) == entry \in Range(history[j])

\* The balance at the start of the one request of Spec, and whether the cost
\* has been taken from it.
BalanceBefore(r) == req[r].creditsRead[1]
Debited(r) == credits = BalanceBefore(r) - CREDITS_REQUIRED
NotDebited(r) == credits = BalanceBefore(r)

\* C1: the balance is decremented by the cost if and only if the job's final
\* status is completed; whenever the job ends failed, also when one of the
\* four writes of the success commit fails, the balance is what it was
\* before the request.
C1_DebitIffCompleted ==
    \A j \in Jobs :
        Settled(j) =>
            /\ Debited(j) <=> files[j] = "completed"
            /\ files[j] = "failed" => NotDebited(j)

\* C2: with concurrent upload requests of one principal the credit balance
\* is never negative.
C2_BalanceNeverNegative == credits >= 0

\* C3: after the request has returned, the four success effects of its job
\* (status completed, result stored, extract/success entry, cost debited) are
\* all present or all absent.
C3_CommitAllOrNothing ==
    \A j \in Jobs :
        Settled(j) =>
            LET effects == <<files[j] = "completed",
                             resumeData[j] # <<>>,
                             HasEntry(j, ExtractSuccessEntry),
                             Debited(j)>> IN
            \/ \A i \in 1..4 : effects[i]
            \/ \A i \in 1..4 : ~effects[i]

\* C4: once the status of a job is completed or failed it is never written
\* again with another value.
C4_TerminalStatusImmutable ==
    [][\A j \in Requests :
          files[j] \in {"completed", "failed"} => files'[j] = files[j]]_vars

\* C5: when a request aborts after its job record was created and the store
\* accepts both failure writes, the job ends failed, the audit trail holds an
\* extract/failed entry with the message of the original error, and the
\* balance is unchanged.
C5_AbortRecorded ==
    \A j \in Jobs :
        (Settled(j) /\ req[j].recorded = "both") =>
            /\ files[j] = "failed"
            /\ HasEntry(j, ExtractFailedEntry(req[j].err))
            /\ NotDebited(j)

\* C6: when the write of the failed status or of the extract/failed entry
\* fails in the catch block, the response is the error response derived from
\* the error that entered the catch block, never another error and never a
\* result.
C6_OriginalErrorReturned ==
    [][\A r \in Requests :
          (req[r].route = "upload" /\ req[r].pc \in {"failStatus", "failAudit"}) =>
              /\ req'[r].err = req[r].err
              /\ req'[r].pc = "done" =>
                    req'[r].response = ErrorResponse(500, UserMessage(req[r].err))]_vars

\* A failure write was rejected after a failure that was not the store's.
C6_Witness ==
    \E r \in Uploads :
        /\ req[r].pc = "done"
        /\ req[r].recorded \in {"status rejected", "audit rejected"}
        /\ req[r].err = MsgNoSignal
        /\ req[r].response = ErrorResponse(500, UserImageBased)

\* C7: a request that read a balance below the cost has returned the
\* insufficient-credits error, and nothing downstream has happened for it:
\* no job record, no audit entry, no stored result, no extraction, no
\* inference call, and the balance is the one it read.
C7_InsufficientCreditsFailFast ==
    \A r \in Uploads :
        (req[r].creditsRead # <<>> /\ req[r].creditsRead[1] < CREDITS_REQUIRED) =>
            /\ req[r].pc = "done"
            /\ req[r].response = InsufficientCredits(req[r].creditsRead[1])
            /\ files[r] = "none"
            /\ history[r] = <<>>
            /\ resumeData[r] = <<>>
            /\ req[r].textState = "idle"
            /\ req[r].imgState = "idle"
            /\ req[r].call = <<>>
            /\ credits = req[r].creditsRead[1]

C7_Witness ==
    \E r \in Uploads :
        /\ req[r].response.status = 402
        /\ req[r].creditsRead = <<50>>

\* C8: an upload response carries a result only when every write of the
\* success commit is done and the job is completed; a request that failed at
\* any step returns the error envelope without result data.
C8_ResultOnlyOnSuccess ==
    \A r \in Uploads :
        /\ req[r].response.data # <<>> =>
              /\ req[r].err = ""
              /\ req[r].pending = {}
              /\ files[r] = "completed"
              /\ resumeData[r] = req[r].response.data
              /\ HasEntry(r, ExtractSuccessEntry)
              /\ Debited(r)
        /\ (req[r].pc = "done" /\ req[r].err # "") =>
              /\ req[r].response.data = <<>>
              /\ req[r].response.status = 500

\* The success commit failed after the result was computed, and the request
\* has returned.
C8_Witness ==
    \E r \in Uploads :
        /\ req[r].pc = "done"
        /\ req[r].result # <<>>
        /\ req[r].err \in StoreErrors
        /\ req[r].response.status = 500

\* C9: whenever an extraction or the inference call of a request has
\* started, the job record exists and the first entry of its audit trail is
\* the upload/success entry.
C9_JobAndAuditBeforeExtraction ==
    \A r \in Uploads :
        (req[r].textState # "idle" \/ req[r].imgState # "idle" \/ req[r].call # <<>>) =>
            /\ files[r] # "none"
            /\ history[r] # <<>>
            /\ history[r][1] = UploadEntry

C9_Witness ==
    \E r \in Uploads :
        /\ req[r].textState = "running"
        /\ req[r].imgState = "running"
        /\ files[r] = "processing"

Mode(call) ==
    IF call.images = <<>> THEN "TEXT_ONLY"
    ELSE IF call.withText THEN "HYBRID"
    ELSE "IMAGE_ONLY"

\* The mode the selector's table gives for a text length and an image count.
TableMode(textLength, imageCount) ==
    IF imageCount = 0 THEN "TEXT_ONLY"
    ELSE IF textLength >= 50 THEN "HYBRID"
    ELSE "IMAGE_ONLY"

\* C11: every inference request of the upload route holds images iff the
\* image count is positive and the text iff the text has at least 50
\* characters; its mode is the one the table gives for (textLength,
\* imageCount), and it uses the high tier exactly in the IMAGE_ONLY mode.
C11_ModeByTextAndImageCount ==
    \A r \in Uploads :
        req[r].call # <<>> =>
            LET call == req[r].call[1]
                mode == TableMode(req[r].textLength, Len(req[r].imageDataUrls)) IN
            /\ call.images # <<>> <=> Len(req[r].imageDataUrls) > 0
            /\ call.withText <=> req[r].textLength >= 50
            /\ Mode(call) = mode
            /\ call.model = IF mode = "IMAGE_ONLY" THEN ModelHigh ELSE ModelLow

\* A hybrid request on the low tier for a text of exactly 50 characters.
C11_Witness ==
    \E r \in Uploads :
        /\ req[r].call # <<>>
        /\ req[r].textLength = 50
        /\ Len(req[r].imageDataUrls) > 0
        /\ Mode(req[r].call[1]) = "HYBRID"
        /\ req[r].call[1].model = ModelLow

\* Both extractions have finished and the mode selector has run.
Selected(r) ==
    /\ req[r].textState = "ok"
    /\ req[r].imgState = "done"
    /\ req[r].pc # "extracting"

NoSignal(r) == req[r].textLength < 50 /\ Len(req[r].imageDataUrls) = 0

\* The errors raised by the two no-signal checks of the mode selector.
Unprocessable == {MsgNoSignal, MsgCannotProcess}

\* C12: a request with fewer than 50 characters of text and no image aborts
\* in the mode selector as unprocessable: no inference call is made, nothing
\* is debited or stored, and the job is failed once the failure is recorded;
\* the mode selector aborts for no other (textLength, imageCount).
C12_NoSignalAborts ==
    \A r \in Uploads :
        /\ (Selected(r) /\ NoSignal(r)) =>
              /\ req[r].err \in Unprocessable
              /\ req[r].call = <<>>
              /\ req[r].pending = {}
              /\ resumeData[r] = <<>>
              /\ NotDebited(r)
              /\ (req[r].pc = "done" /\ req[r].recorded = "both") => files[r] = "failed"
        /\ req[r].err \in Unprocessable => (Selected(r) /\ NoSignal(r))

\* A request with 49 characters of text and no image has returned.
C12_Witness ==
    \E r \in Uploads :
        /\ req[r].pc = "done"
        /\ req[r].textLength = 49
        /\ req[r].imageDataUrls = <<>>
        /\ req[r].err = MsgNoSignal
        /\ files[r] = "failed"
        /\ req[r].response = ErrorResponse(500, UserImageBased)

\* C13: at most 3 images are returned by the image path and at most 3 enter
\* the inference request, whatever the page count of the document and
\* whichever path produced them (embedded images, downloaded pages, inline
\* image).
C13_AtMostThreeImages ==
    \A r \in Uploads :
        /\ Len(req[r].imageDataUrls) <= 3
        /\ req[r].call # <<>> => Len(req[r].call[1].images) <= 3

\* A document of four pages without embedded images, rasterized by the
\* service: three downloaded pages are in the request.
C13_Witness ==
    \E r \in Uploads :
        /\ req[r].pageCount = 4
        /\ req[r].imgPath = "urls"
        /\ req[r].call # <<>>
        /\ Len(req[r].call[1].images) = 3

\* C14: every image the image extraction returns, and so every image of the
\* inference request, has a base64 encoding of at most 4,000,000 characters.
C14_ImagesWithinLimit ==
    \A r \in Uploads :
        /\ \A i \in DOMAIN req[r].imageDataUrls : req[r].imageDataUrls[i].base64 <= 4000000
        /\ req[r].call # <<>> =>
              \A i \in DOMAIN req[r].call[1].images : req[r].call[1].images[i].base64 <= 4000000

\* C17: when the rasterization fallback has failed because the capability
\* is not configured, the request does not go on to an inference call, and
\* once both extractions are over it has failed with that error.
C17_MissingCapabilitySurfaced ==
    \A r \in Uploads :
        req[r].imgErr = MsgMissingCapability =>
            /\ req[r].call = <<>>
            /\ Selected(r) => req[r].err = MsgMissingCapability

\* C18: when extractTextFromPDF has returned or thrown, on whichever path,
\* the temporary file it created does not exist.
C18_TempFileRemoved ==
    \A r \in Uploads :
        req[r].textState \in {"ok", "failed"} => req[r].tempFile # "exists"

\* C19: a request whose text extraction was ended by the 30-second timer
\* returns the timeout response, which no request ended by a parser error
\* returns, whatever the image path has done; and the step of the timer
\* leaves the image path as it is.
C19_TimeoutOutcome ==
    /\ [](\A r \in Uploads :
            req[r].pc = "done" =>
                /\ req[r].textEvent = "timeout" =>
                      req[r].response = ErrorResponse(500, UserTimeout)
                /\ req[r].textEvent = "error" =>
                      req[r].response # ErrorResponse(500, UserTimeout))
    /\ [][\A r \in Requests :
            (req[r].textEvent = "" /\ req'[r].textEvent = "timeout") =>
                /\ req'[r].imgState = req[r].imgState
                /\ req'[r].imageDataUrls = req[r].imageDataUrls
                /\ req'[r].imgErr = req[r].imgErr]_vars

\* The timeout response was returned while the image path was waiting for
\* the conversion service.
C19_Witness ==
    \E r \in Uploads :
        /\ req[r].pc = "done"
        /\ req[r].textEvent = "timeout"
        /\ req[r].imgState = "fallback"
        /\ req[r].response = ErrorResponse(500, UserTimeout)

\* The completion of the request has arrived with this content.
Answered(r, content) == req[r].content = <<content>>

\* Nothing of the success commit has happened or is under way for the job.
NothingCommitted(r) ==
    /\ req[r].result = <<>>
    /\ req[r].pending = {}
    /\ resumeData[r] = <<>>
    /\ NotDebited(r)

\* The request failed with this error and returned its error response; the
\* job is failed when the store has accepted the two failure writes.
FailedWith(r, msg) ==
    /\ req[r].err = msg
    /\ NothingCommitted(r)
    /\ req[r].pc = "done" =>
          /\ req[r].response = ErrorResponse(500, UserMessage(msg))
          /\ req[r].recorded = "both" => files[r] = "failed"

\* An object without profile name and surname and without work
\* experiences, educations and skills.
Vacant(o) ==
    /\ "profile" \in DOMAIN o => {"name", "surname"} \cap Range(o["profile"]) = {}
    /\ \A k \in {"workExperiences", "educations", "skills"} :
          k \in DOMAIN o => o[k] = <<>>

\* The contents that parse to a vacant object and are not the placeholder.
VacantContents ==
    {c \in Contents \ {ContentPlaceholder} :
        JSONParse(c) # <<>> /\ Vacant(JSONParse(c)[1])}

\* C15: an empty parsed result fails the request with ExtractionEmpty,
\* without stored result or debit and with the job failed, when the request
\* is image-only or has fewer than 50 characters of text; with 50 characters
\* or more the result goes to the success commit, and when no collaborator
\* fails it is returned, the job is completed and the cost is debited.
C15_EmptyResult ==
    \A r \in Uploads : \A c \in VacantContents :
        Answered(r, c) =>
            IF req[r].call[1].isImageBased \/ req[r].textLength < 50
            THEN FailedWith(r, MsgExtractionEmpty)
            ELSE /\ req[r].err # MsgExtractionEmpty
                 /\ req[r].result = <<reorderResumeData(JSONParse(c)[1])>>
                 /\ (req[r].pc = "done" /\ faults = 0) =>
                       /\ req[r].response = ResultResponse(req[r].result[1])
                       /\ files[r] = "completed"
                       /\ Debited(r)

\* An empty result for a text of 50 characters was returned and debited.
C15_Witness ==
    \E r \in Uploads :
        /\ Answered(r, ContentTemplate)
        /\ req[r].textLength = 50
        /\ req[r].pc = "done"
        /\ req[r].response = ResultResponse(ObjTemplate)
        /\ files[r] = "completed"
        /\ Debited(r)

\* C16: a completion without content, with blank content or with the
\* placeholder object fails the request with InferenceEmpty, and one whose
\* content cannot be parsed fails it with InferenceMalformed; in both cases
\* nothing is stored or debited and the job is failed.
C16_EmptyOrMalformedInference ==
    \A r \in Uploads :
        /\ \A c \in {ContentNull, ContentEmptyString, ContentBlank, ContentPlaceholder} :
              Answered(r, c) => FailedWith(r, MsgInferenceEmpty)
        /\ Answered(r, ContentProse) => FailedWith(r, MsgMalformed)

\* The placeholder object was the answer for a text of 100 characters, and
\* the request has returned.
C16_Witness ==
    \E r \in Uploads :
        /\ Answered(r, ContentPlaceholder)
        /\ req[r].textLength = 100
        /\ req[r].pc = "done"
        /\ req[r].recorded = "both"
        /\ files[r] = "failed"

\* The errors the mode selector and the request builder raise.
SelectorErrors == {MsgNoSignal, MsgPrepImages, MsgCannotProcess}

\* C20: the mode selector has run only when both extractions had finished,
\* and two requests with the same extraction results have the same
\* inference request, the same error and, once both have returned, the same
\* response and job status, whichever extraction finished first in each;
\* two requests with the same text extraction failure return the same
\* response.
C20_JoinBeforeSelection ==
    /\ \A r \in Uploads :
          (req[r].call # <<>> \/ req[r].err \in SelectorErrors) =>
              req[r].textState = "ok" /\ req[r].imgState = "done"
    /\ \A r1, r2 \in Uploads :
          /\ ( /\ Selected(r1) /\ Selected(r2)
               /\ req[r1].textLength = req[r2].textLength
               /\ req[r1].imageDataUrls = req[r2].imageDataUrls ) =>
                /\ req[r1].call = req[r2].call
                /\ req[r1].err = req[r2].err
                /\ (req[r1].pc = "done" /\ req[r2].pc = "done") =>
                      /\ req[r1].response = req[r2].response
                      /\ files[r1] = files[r2]
          /\ ( /\ req[r1].pc = "done" /\ req[r2].pc = "done"
               /\ req[r1].textState = "failed" /\ req[r2].textState = "failed"
               /\ req[r1].textErr = req[r2].textErr ) =>
                req[r1].response = req[r2].response

\* Two requests with 50 characters of text and one image have both sent a
\* hybrid request; in one the text was there first, in the other the image.
C20_Witness ==
    \E r1, r2 \in Uploads :
        /\ req[r1].first = "text"
        /\ req[r2].first = "images"
        /\ req[r1].textLength = 50 /\ req[r2].textLength = 50
        /\ req[r1].imageDataUrls = <<ImgGood>> /\ req[r2].imageDataUrls = <<ImgGood>>
        /\ req[r1].call # <<>> /\ req[r1].call = req[r2].call
        /\ Mode(req[r1].call[1]) = "HYBRID"

\* The positions of the audit trail of job j that hold an entry of this action.
EntriesOf(j, action) == {i \in DOMAIN history[j] : history[j][i].action = action}

\* C21: once the request of a job has returned and none of its writes is in
\* flight, the audit trail of the job holds exactly one upload entry and at
\* most one extract entry, and the status of the extract entry agrees with
\* the job status (success with completed, failed with failed).
C21_AuditTrailConsistent ==
    \A j \in Jobs :
        Settled(j) =>
            /\ Cardinality(EntriesOf(j, "upload")) = 1
            /\ Cardinality(EntriesOf(j, "extract")) <= 1
            /\ \A i \in EntriesOf(j, "extract") :
                  /\ history[j][i].status = "success" <=> files[j] = "completed"
                  /\ history[j][i].status = "failed" <=> files[j] = "failed"

\* C22: when a request that created its job has returned with an error, the
\* write of the extract/failed entry was attempted, also when the write of
\* the failed status was rejected.
C22_BothFailureWritesAttempted ==
    \A j \in Jobs :
        (req[j].pc = "done" /\ req[j].err # "") =>
            req[j].recorded \in {"both", "audit rejected"}

\* C23: when an upload request has returned, the job it created is
\* completed or failed, never processing.
C23_NoResponseWhileProcessing ==
    \A j \in Jobs :
        req[j].pc = "done" => files[j] \in {"completed", "failed"}

\* C24: a request with at least 50 characters of text does not fail in the
\* request builder because of its images: it goes on to the inference call,
\* and to a text-only one when no image passes the validation.
C24_ImageFailureDegrades ==
    \A r \in Uploads :
        (Selected(r) /\ req[r].textLength >= 50) =>
            /\ req[r].err \notin SelectorErrors
            /\ req[r].call # <<>>
            /\ ValidImages(req[r].imageDataUrls) = <<>> => Mode(req[r].call[1]) = "TEXT_ONLY"

\* The errors convertPdfToImageViaApi throws after it has found the API key.
KeyConfiguredErrors ==
    {MsgApiUpload, MsgApiNoUrl, MsgApiConvert, MsgApiNoData, MsgApiNoImages, MsgApiNetwork}

\* C25: the error saying that the API key is not configured is not raised
\* in a run in which the fallback found the key and failed for another
\* reason.
C25_KeyErrorOnlyWithoutKey ==
    \A r \in Uploads :
        req[r].err = MsgNoSignal => req[r].imgErr \notin KeyConfiguredErrors

\* The errors extractImagesAsBase64 throws before it has scanned a page: the
\* document has no pages or cannot be opened.
ScanFailures == {MsgNoPages, MsgLoad, MsgImgUnavailable}

\* The visited pages at which the scan pushed an image.
ImagePages(r) == {i \in DOMAIN req[r].scan : req[r].scan[i].outcome = "image"}

\* C26: when the upload or the convert call of the conversion service has
\* been made, the embedded scan had visited the first min(pageCount, 3)
\* pages of an opened document with at least one page and had found no
\* qualifying image; so no call is made when an embedded image was found,
\* when the document has no pages or when it cannot be opened.
C26_FallbackOnlyAfterEmptyScan ==
    \A r \in Uploads :
        /\ "convert" \in req[r].invoked => "upload" \in req[r].invoked
        /\ req[r].invoked # {} =>
              /\ req[r].pageCount > 0
              /\ Len(req[r].scan) = Min(req[r].pageCount, 3)
              /\ ImagePages(r) = {}
              /\ req[r].imgPath # "embedded"
              /\ req[r].imgErr \notin ScanFailures
        /\ (ImagePages(r) # {} \/ req[r].imgErr \in ScanFailures) => req[r].invoked = {}

\* A document of four pages, one of the first three raising an error and
\* none holding a qualifying image, was uploaded and converted.
C26_Witness ==
    \E r \in Uploads :
        /\ req[r].pageCount = 4
        /\ Len(req[r].scan) = 3
        /\ \E i \in DOMAIN req[r].scan : req[r].scan[i].outcome = "error"
        /\ req[r].invoked = {"upload", "convert"}
        /\ req[r].imgPath = "urls"

\* C27: a request whose text has at least 100 characters makes no call of
\* the conversion service and sends no image to the inference service.
C27_NoImageWorkForLongText ==
    \A r \in Uploads :
        (req[r].textState = "ok" /\ req[r].textLength >= 100) =>
            /\ req[r].invoked = {}
            /\ req[r].call # <<>> => req[r].call[1].images = <<>>

\* A download that is not dropped: the fetch was answered with status OK
\* and the data URL of the body is within the size limit.
Kept(dl) == dl.kind = "ok" /\ 22 + Base64Length(dl.bytes) <= 4000000

KeptPages(r) == {i \in DOMAIN req[r].downloads : Kept(req[r].downloads[i].dl)}

\* The image path of the request is over and went through the downloads.
DownloadsOver(r) == req[r].imgState = "done" /\ req[r].downloads # <<>>

\* C28: when the downloads of the converted pages are over, the fallback
\* has returned the image of every page that was not dropped and nothing
\* else, and it has failed exactly when every page was dropped.
C28_DroppedPagesOnly ==
    \A r \in Uploads :
        DownloadsOver(r) =>
            /\ req[r].imgErr = MsgApiNoImages <=> KeptPages(r) = {}
            /\ KeptPages(r) # {} =>
                  /\ req[r].imgErr = ""
                  /\ Len(req[r].imageDataUrls) = Cardinality(KeptPages(r))
                  /\ \A i \in KeptPages(r) :
                        DataUrl("png", Base64Length(req[r].downloads[i].dl.bytes), TRUE)
                            \in Range(req[r].imageDataUrls)

\* Of three pages the first download threw, the second was too large and
\* the third was kept: its image is the one returned.
C28_Witness ==
    \E r \in Uploads :
        /\ DownloadsOver(r)
        /\ Len(req[r].downloads) = 3
        /\ req[r].downloads[1].dl.kind = "throws"
        /\ req[r].downloads[2].dl = [kind |-> "ok", bytes |-> 2999983]
        /\ req[r].downloads[3].dl = [kind |-> "ok", bytes |-> 1001]
        /\ req[r].imageDataUrls = <<DataUrl("png", 1336, TRUE)>>

\* The images are those of pages of ascending index, one per page at most:
\* pages[i] is the image page i gave, or the empty sequence.
InPageOrder(images, pages) ==
    \E f \in [DOMAIN images -> DOMAIN pages] :
        /\ \A a, b \in DOMAIN images : a < b => f[a] < f[b]
        /\ \A k \in DOMAIN images : pages[f[k]] = <<images[k]>>

\* C29: the images an image path has returned are in ascending page order
\* with at most one image per page: the embedded images by the page they
\* were found on, the downloaded images by the page their URL stands for,
\* in whatever order the downloads settled; the inline image is alone.
C29_ImagesInPageOrder ==
    \A r \in Uploads :
        (req[r].imgState = "done" /\ req[r].imgErr = "") =>
            /\ req[r].imgPath = "embedded" =>
                  InPageOrder(req[r].imageDataUrls,
                              [i \in DOMAIN req[r].scan |-> req[r].scan[i].image])
            /\ req[r].imgPath = "urls" =>
                  InPageOrder(req[r].imageDataUrls,
                              [i \in DOMAIN req[r].downloads |->
                                  Download(req[r].downloads[i].dl)])
            /\ req[r].imgPath = "inline" => Len(req[r].imageDataUrls) = 1

\* The download of the second page settled before that of the first, and
\* the image of the first page is the first image returned.
C29_Witness ==
    \E r \in Uploads :
        /\ req[r].imgState = "done"
        /\ req[r].completion = <<2, 1>>
        /\ req[r].downloads[1].dl = [kind |-> "ok", bytes |-> 1001]
        /\ req[r].downloads[2].dl = [kind |-> "ok", bytes |-> 2999982]
        /\ req[r].imageDataUrls = <<DataUrl("png", 1336, TRUE), DataUrl("png", 3999976, TRUE)>>

\* C30: when the embedded scan has visited its pages, the images returned
\* are those of the pages with a qualifying image, whatever happened at
\* the other pages: a page that raised an error or held no qualifying image
\* contributes no entry and no error; without any image the extractor goes
\* on to the fallback.
C30_PageErrorSkipped ==
    \A r \in Uploads :
        req[r].scan # <<>> =>
            /\ req[r].imgErr \notin ScanFailures
            /\ ImagePages(r) # {} =>
                  /\ req[r].imgState = "done"
                  /\ req[r].imgPath = "embedded"
                  /\ req[r].imgErr = ""
                  /\ Len(req[r].imageDataUrls) = Cardinality(ImagePages(r))
                  /\ \A i \in ImagePages(r) :
                        req[r].scan[i].image[1] \in Range(req[r].imageDataUrls)
            /\ ImagePages(r) = {} =>
                  /\ req[r].imgState \in {"fallback", "downloading", "done"}
                  /\ req[r].imgPath # "embedded"

\* The first page raised an error, the second held an image, the third
\* held none: the image of the second page is returned.
C30_Witness ==
    \E r \in Uploads :
        /\ Len(req[r].scan) = 3
        /\ req[r].scan[1].outcome = "error"
        /\ req[r].scan[2].outcome = "image"
        /\ req[r].scan[3].outcome = "none"
        /\ req[r].imageDataUrls = <<ImgGood>>
        /\ req[r].imgErr = ""

\* The messages the catch block holds ready for the caller.
UserSafe == {UserDefault, UserUnavailable, UserImageBased, UserTimeout, UserCorrupted}

\* C31: when an upload request that created its job has returned an error,
\* the message of the response is one of the fixed user messages and is not
\* the message of the error that was thrown.
C31_UserSafeMessage ==
    \A r \in Jobs :
        (req[r].pc = "done" /\ req[r].err # "") =>
            /\ req[r].response.error \in UserSafe
            /\ req[r].response.error # req[r].err

\* The failure kind of an error of the upload route, for the kinds the
\* caller is to tell apart (the error for no usable signal names the
\* missing key of the conversion service: one kind).
Kind(msg) ==
    CASE msg \in {MsgNoSignal, MsgCannotProcess} -> "Unprocessable"
      [] msg = MsgExtractionEmpty -> "ExtractionEmpty"
      [] msg = MsgInferenceEmpty -> "InferenceEmpty"
      [] msg = MsgMalformed -> "InferenceMalformed"
      [] msg = MsgTextTimeout -> "Timeout"
      [] OTHER -> ""

KindErrors ==
    {MsgNoSignal, MsgCannotProcess, MsgExtractionEmpty, MsgInferenceEmpty,
     MsgMalformed, MsgTextTimeout}

\* C32: the error response of a request that failed with one of these
\* kinds is not the response the route gives for an error of another of
\* these kinds.
C32_KindsDistinguishable ==
    \A r \in Uploads :
        (req[r].pc = "done" /\ req[r].err \in KindErrors) =>
            \A other \in KindErrors :
                Kind(other) # Kind(req[r].err) =>
                    req[r].response # ErrorResponse(500, UserMessage(other))

\* The parser reported its data and obtained no text from it.
NoText(r) ==
    /\ req[r].events # <<>>
    /\ req[r].events[1] = "ready"
    /\ req[r].rawText = "threw" \/ req[r].textLength = 0

\* C33: when data ready is the first event and the text is empty or reading
\* it throws, the text extraction succeeds with a text of length 0: no
\* error of the text extraction is raised, and the mode selector runs on
\* textLength = 0 (unprocessable without images, image-only with images).
C33_NoTextIsSuccess ==
    \A r \in Uploads :
        NoText(r) =>
            /\ req[r].textEvent = "ready"
            /\ req[r].textLength = 0
            /\ req[r].textErr = ""
            /\ req[r].textState \in {"unlink", "ok"}
            /\ req[r].err \notin TextErrors
            /\ Selected(r) =>
                  IF req[r].imageDataUrls = <<>>
                  THEN req[r].call = <<>> /\ req[r].err = MsgNoSignal
                  ELSE req[r].call # <<>> /\ Mode(req[r].call[1]) = "IMAGE_ONLY"

\* Reading the text content threw and the request went on to an image-only
\* inference call.
C33_Witness ==
    \E r \in Uploads :
        /\ req[r].textEvent = "ready"
        /\ req[r].rawText = "threw"
        /\ req[r].textLength = 0
        /\ Selected(r)
        /\ req[r].call # <<>>

\* C34: the first of the events data ready, data error and timeout decides
\* the outcome of the text extraction; an event that arrives after it
\* changes nothing of the request but the record of the events.
C34_FirstEventDecides ==
    /\ [](\A r \in Uploads :
            /\ req[r].events # <<>> => req[r].textEvent = req[r].events[1]
            /\ req[r].textState = "ok" =>
                  req[r].textEvent = "ready" /\ req[r].textErr = ""
            /\ (req[r].textState = "failed" /\ req[r].textEvent # "") =>
                  /\ req[r].textEvent \in {"error", "timeout"}
                  /\ req[r].err = req[r].textErr
                  /\ req[r].textEvent = "timeout" <=> req[r].textErr = MsgTextTimeout)
    /\ [][\A r \in Requests :
            req[r].textEvent # "" =>
                /\ req'[r].textEvent = req[r].textEvent
                /\ req'[r].textLength = req[r].textLength
                /\ req'[r].textErr = req[r].textErr
                /\ req'[r].events # req[r].events =>
                      req'[r] = [req[r] EXCEPT !.events = req'[r].events,
                                               !.resolved = req'[r].resolved,
                                               !.rawText = req'[r].rawText]]_vars

\* The timer fired after a successful parse, and the request has returned
\* its result.
C34_Witness ==
    \E r \in Uploads :
        /\ req[r].events = <<"ready", "timeout">>
        /\ req[r].pc = "done"
        /\ req[r].response.status = 200

\* C35: an upload request that has created no job record has written
\* nothing: its job, its result and its audit trail do not exist, and no
\* step it takes without creating the job changes the balance or the store.
C35_RejectedLeavesStore ==
    /\ [](\A r \in Uploads :
            ~req[r].fileRecord =>
                /\ files[r] = "none"
                /\ resumeData[r] = <<>>
                /\ history[r] = <<>>
                /\ req[r].creditsRead # <<>> => NotDebited(r))
    /\ [][\A r \in Requests :
            (req'[r] # req[r] /\ req'[r].route = "upload" /\ ~req'[r].fileRecord) =>
                UNCHANGED <<credits, files, resumeData, history>>]_vars

\* A request without a file has been answered with status 400 and the store
\* is as it was.
C35_Witness ==
    \E r \in Uploads :
        /\ req[r].response = ErrorResponse(400, "No file uploaded")
        /\ ~req[r].fileRecord
        /\ files[r] = "none"
        /\ history[r] = <<>>
        /\ NotDebited(r)

Extracts == {r \in Requests : req[r].route = "extract"}

ImageFound(r) == req[r].imageDataUrls # <<>>

\* C36: an upload request and an extract request that both reach the
\* inference call with the same text length and the same answer to whether
\* an image was found call the same model; no request of either route
\* reaches the inference call with fewer than 50 characters of text and no
\* image, and such a request is answered with an error.
C36_RoutesChooseSameTier ==
    /\ \A u \in Uploads, x \in Extracts :
          (/\ req[u].call # <<>>
           /\ req[x].call # <<>>
           /\ req[u].textLength = req[x].textLength
           /\ ImageFound(u) <=> ImageFound(x)) =>
              req[u].call[1].model = req[x].call[1].model
    /\ \A r \in Requests :
          /\ (req[r].call # <<>> /\ req[r].textLength < MIN_TEXT) =>
                (ImageFound(r) /\ req[r].call[1].images # <<>>)
          /\ (req[r].pc = "done" /\ req[r].textLength < MIN_TEXT /\ ~ImageFound(r)) =>
                (req[r].call = <<>> /\ req[r].response.status # 200)

\* Both routes have sent an image request for a text of 49 characters to
\* the high tier.
C36_Witness ==
    \E u \in Uploads, x \in Extracts :
        /\ req[u].call # <<>>
        /\ req[x].call # <<>>
        /\ req[u].textLength = 49
        /\ req[x].textLength = 49
        /\ ImageFound(u)
        /\ ImageFound(x)
        /\ req[u].call[1].model = ModelHigh
        /\ req[x].call[1].model = ModelHigh

\* The contents that are missing, empty, or the empty placeholder object.
NoContents == {ContentNull, ContentEmptyString, ContentPlaceholder}

\* C37: an extract request whose completion has no content, empty content
\* or the empty placeholder object is answered with an error, not with a
\* result.
C37_ExtractRejectsNoContent ==
    \A r \in Extracts :
        (req[r].pc = "done" /\ req[r].content # <<>> /\ req[r].content[1] \in NoContents) =>
            /\ req[r].response.status # 200
            /\ req[r].response.error # ""

\* The uploads of the component whose handleUpload has not finished.
InFlight == {u \in Requests : ui.pc[u] \in {"fetch", "json"}}

\* C38: the loading flag of the component is set while an upload is in
\* flight, and when none is in flight after an upload was started, the
\* result shown is that of the upload started last.
C38_LoadingAndLatestResult ==
    /\ InFlight # {} => ui.loading
    /\ (InFlight = {} /\ ui.started # <<>>) =>
          /\ ui.result # <<>>
          /\ ui.result[1].of = ui.started[Len(ui.started)]

====
